---------------------------- MODULE Spec2Model ----------------------------
(***************************************************************************)
(* Model of internal/httpclient/client.go: Client.DoSigned (the retry /   *)
(* backoff loop), Client.do (the body limit check and the body it wraps), *)
(* the bad-hosts TTL cache and the dialer's Sanitizer set up by New.      *)
(*                                                                         *)
(* Spec has one goroutine calling DoSigned, call after call; PairSpec and *)
(* FairPairSpec have two goroutines calling at the same time; BodySpec    *)
(* follows the body of one response through Client.do, reads and Close;   *)
(* DialSpec applies the Sanitizer to the addresses a dial may meet.       *)
(*                                                                         *)
(* Durations are whole seconds.  The largest duration the code computes   *)
(* is 2^32-1 seconds held in an int64 of nanoseconds, which does not      *)
(* overflow, so no modular arithmetic is needed.  Instants are kept       *)
(* relative to the current instant: a timer by the time left until it     *)
(* fires, a cache entry by the time left until it expires, the date of a  *)
(* header by its distance from the instant the header is parsed.           *)
(***************************************************************************)
EXTENDS Integers, Sequences, FiniteSets, TLC

(* ------------------------------ bounds -------------------------------- *)

\* Number of calls of DoSigned made in all.
MaxCalls == 2

\* Configured Config.MaxBodySize (bytes) of the modelled client.
MaxBodySize == 2

\* Length of an IP address, in bits.
AddrBits == 3

\* Most prefixes in Config.AllowRanges, and in Config.BlockRanges.
MaxPrefixes == 2

\* The callers of the client (goroutines).  Calls meet only in c.badHosts; a
\* caller makes its calls one after the other on the same client.
Calls == {1, 2}

\* The caller of the runs in which the calls come one after the other.
Solo == {1}

Hosts == {"a.example", "b.example"}

(* -------------------------- program constants ------------------------- *)

\* Variant of maxRetries: one attempt more.
maxRetriesSix == 5 + 1

\* max no. attempts.
maxRetries == 5

\* starting backoff duration (seconds).
baseBackoff == 2

\* c.badHosts.SetTTL(time.Hour, false), in seconds.
badHostsTTL == 3600

\* c.badHosts.Start(time.Minute), in seconds.
sweepFreq == 60

\* http.StatusTooManyRequests
StatusTooManyRequests == 429

\* int64(512 * bytesize.MiB), the default of Config.MaxBodySize.
DefaultMaxBodySize == 536870912

\* c.bodyMax as New sets it: cfg.MaxBodySize, or the default when that is
\* not positive.
bodyMax == IF MaxBodySize <= 0 THEN DefaultMaxBodySize ELSE MaxBodySize

(* ------------------------------- errors ------------------------------- *)

\* An error value: what errors.Is finds in its chain (sentinel), what its
\* message contains (text), whether errors.As finds a *net.DNSError in it
\* and with which IsNotFound flag (dns), and how DoSigned wrapped it (wrap).
Err(sentinel, text, dns, wrap) ==
    [sentinel |-> sentinel, text |-> text, dns |-> dns, wrap |-> wrap]

\* The nil error.
NoErr == Err("nil", "", "none", "none")

ErrInvalidRequest == Err("ErrInvalidRequest", "invalid http request", "none", "none")

ErrInvalidNetwork == Err("ErrInvalidNetwork", "invalid network type", "none", "none")

ErrReservedAddr == Err("ErrReservedAddr", "dial within blocked / reserved IP range", "none", "none")

ErrBodyTooLarge == Err("ErrBodyTooLarge", "body size too large", "none", "none")

\* context.DeadlineExceeded / context.Canceled, as ctx.Err() returns them
\* and as the transport returns them (wrapped, still found by errors.Is).
DeadlineExceeded == Err("DeadlineExceeded", "context deadline exceeded", "none", "none")

Canceled == Err("Canceled", "context canceled", "none", "none")

\* Errors the underlying http.Client{}.Do() can return.  The message of a
\* *net.DNSError is "lookup <name>: <err>", so a lookup of a host whose name
\* ends in "tls" or "x509" carries "tls: " resp. "x509: " in its message.
TransportErrors ==
    { DeadlineExceeded, Canceled, ErrReservedAddr,
      Err("none", "connection refused", "none", "none"),
      Err("none", "stopped after 10 redirects", "none", "none"),
      Err("none", "tls: ", "none", "none"),
      Err("none", "x509: ", "none", "none"),
      Err("none", "no such host", "notfound", "none"),
      Err("none", "server misbehaving", "other", "none"),
      Err("none", "tls: ", "notfound", "none"),
      Err("none", "tls: ", "other", "none") }

\* err = fmt.Errorf(`http response: %s`, rsp.Status)
StatusErr == Err("none", "http response", "none", "none")

\* err = errors.New("transport reached max retries")
MaxRetriesErr == Err("none", "transport reached max retries", "none", "none")

\* gtserror.SetNotFound(err)
SetNotFound(e) == [e EXCEPT !.wrap = "notfound"]

\* fmt.Errorf("%w (fast fail)", err)
FastFailErr(e) == [e EXCEPT !.wrap = "fastfail"]

(* ----------------------- Retry-After and backoff ----------------------- *)

\* now := time.Now(): the instant every other instant is relative to.
Now == 0

\* The instant of the zero time.Time{}, which http.ParseTime returns with
\* its error: year 1, far before Now.
ZeroTime == Now - 1000000

\* A "Retry-After" header value as rsp.Header.Get returns it: "" (absent),
\* a string of decimal digits, an HTTP date naming the instant `at`, or
\* text that is neither.
HdrAbsent == [kind |-> "absent", digits |-> <<>>, at |-> ZeroTime]

HdrInt(ds) == [kind |-> "int", digits |-> ds, at |-> ZeroTime]

HdrDate(t) == [kind |-> "date", digits |-> <<>>, at |-> t]

HdrGarbage == [kind |-> "garbage", digits |-> <<>>, at |-> ZeroTime]

\* Value of a digit string in base 10.
RECURSIVE DecimalValue(_)
DecimalValue(ds) ==
    IF ds = <<>> THEN 0
    ELSE 10 * DecimalValue(SubSeq(ds, 1, Len(ds) - 1)) + ds[Len(ds)]

\* u, _ := strconv.ParseUint(after, 10, 32): the value of a digit string,
\* 0 (with the ignored error) for anything else.  The digit strings of the
\* model stay far below 2^32, where ParseUint would saturate.
ParseUint(after) ==
    IF after.kind = "int" THEN DecimalValue(after.digits) ELSE 0

\* at, _ := http.ParseTime(after): the instant of an HTTP date, the zero
\* time (with the ignored error) for anything else.
ParseTime(after) ==
    IF after.kind = "date" THEN after.at ELSE ZeroTime

\* Upper limit of a server provided backoff: baseBackoff * maxRetries.
RetryAfterMax == baseBackoff * maxRetries

\* Variant of RetryAfterBackoff: the provided backoff is not limited.
RetryAfterBackoffUncapped(after, nw) ==
    IF after.kind = "absent" THEN 0
    ELSE LET u == ParseUint(after)
             at == ParseTime(after)
         IN  IF u # 0 THEN u
             ELSE IF ~(at < nw) THEN at - nw
             ELSE 0

\* Variant of RetryAfterBackoff: a date is taken whether past or future,
\* by its distance from now.
RetryAfterBackoffAnyDate(after, nw) ==
    IF after.kind = "absent" THEN 0
    ELSE LET u == ParseUint(after)
             at == ParseTime(after)
             b == IF u # 0 THEN u
                  ELSE IF after.kind = "date" /\ at < nw THEN nw - at
                  ELSE IF after.kind = "date" THEN at - nw
                  ELSE 0
         IN  IF b > RetryAfterMax THEN RetryAfterMax ELSE b

\* The backoff DoSigned takes from a response's "Retry-After" header at the
\* instant `nw` (= time.Now()); 0 when the header gives none.
RetryAfterBackoff(after, nw) ==
    IF after.kind = "absent" THEN 0
    ELSE LET u == ParseUint(after)
             at == ParseTime(after)
             b == IF u # 0 THEN u
                  ELSE IF ~(at < nw) THEN at - nw
                  ELSE 0
         IN  IF b > RetryAfterMax THEN RetryAfterMax ELSE b

\* Variant of ExpBackoff: the shift is by i.
ExpBackoffShiftI(i) == (baseBackoff * 1) * (2 ^ i)

\* backoff = baseBackoff * 1 << (i + 1); in Go * and << have the same
\* precedence and associate to the left.
ExpBackoff(i) == (baseBackoff * 1) * (2 ^ (i + 1))

(* ------------------------------- signing ------------------------------ *)

\* How often n iterations of the loop of DoSigned invoke the parameter
\* `sign`: the body of DoSigned never refers to it, and it is handed
\* neither to c.do nor to the request.
SignInvocations(n) == 0

\* The error of a signer that failed. Signing is left to the transport of
\* c.client (signingtransport), so the failure of a signer reaches DoSigned
\* as the error of c.do; it is none of the sentinels and no DNS error.
SignErr == Err("none", "signing failed", "none", "none")

(* --------------------------- classification --------------------------- *)

\* Variant of StatusOK: 429 is not singled out.
StatusOKBelow500(code) == code < 500

\* code < 500 && code != http.StatusTooManyRequests
StatusOK(code) == code < 500 /\ code # StatusTooManyRequests

\* Variant of IsNonRetryable: ErrReservedAddr is left out.
IsNonRetryableNoReserved(e) ==
    e.sentinel \in {"DeadlineExceeded", "Canceled", "ErrBodyTooLarge"}

\* errorsv2.IsV2(err, context.DeadlineExceeded, context.Canceled,
\*               ErrBodyTooLarge, ErrReservedAddr)
IsNonRetryable(e) ==
    e.sentinel \in {"DeadlineExceeded", "Canceled", "ErrBodyTooLarge", "ErrReservedAddr"}

\* strings.Contains(errstr, ...) for the three unwrapped error kinds.
IsUnrecoverableText(e) ==
    e.text \in {"stopped after 10 redirects", "tls: ", "x509: "}

\* errors.As(err, &dnserr) && dnserr.IsNotFound
IsDNSNotFound(e) == e.dns = "notfound"

(* ------------------------------ Client.do ----------------------------- *)

\* What http.Client{}.Do() hands back: an error, or a response with its
\* status code, "Retry-After" header and declared ContentLength.
RawErr(e) == [err |-> e, code |-> 0, after |-> HdrAbsent, length |-> 0]

RawRsp(code, after, length) ==
    [err |-> NoErr, code |-> code, after |-> after, length |-> length]

\* Variant of do: the declared length is not checked.
doUnchecked(raw) ==
    IF raw.err # NoErr THEN RawErr(raw.err) ELSE raw

\* Client.do: passes the transport's error on, fails with ErrBodyTooLarge
\* when the declared length is above c.bodyMax, else returns the response.
do(raw) ==
    IF raw.err # NoErr THEN RawErr(raw.err)
    ELSE IF raw.length > bodyMax THEN RawErr(ErrBodyTooLarge)
    ELSE raw

\* Variant of ReadLimit: a body of unknown length is not limited to
\* c.bodyMax.
ReadLimitDeclaredOnly(length) ==
    IF length < 0 THEN bodyMax + 2 ELSE length

\* The limit Client.do gives to io.LimitReader: the declared length, or
\* c.bodyMax when that is unknown (negative).
ReadLimit(length) ==
    IF length < 0 THEN bodyMax ELSE length

(* ------------------------- DoSigned, one attempt ---------------------- *)

\* How one iteration of the attempt loop ends: a return of (rsp, err), or a
\* wait of `backoff` with the error that led to it.
Returns(code, e) == [kind |-> "return", rsp |-> code, err |-> e, backoff |-> 0]

Waits(e, b) == [kind |-> "wait", rsp |-> 0, err |-> e, backoff |-> b]

\* Variant of Retry: fastFail is not looked at.
RetryAlways(e, b, ff, idx) ==
    Waits(e, IF b = 0 THEN ExpBackoff(idx) ELSE b)

\* The tail of an iteration that did not return: the fast-fail return, or
\* the backoff (the exponential one when none was found).
Retry(e, b, ff, idx) ==
    IF ff THEN Returns(0, FastFailErr(e))
    ELSE Waits(e, IF b = 0 THEN ExpBackoff(idx) ELSE b)

\* One iteration of the loop of DoSigned on the result `r` of c.do(r), with
\* the call's fastFail flag, the attempt index and the current instant.
Iteration(r, ff, idx, nw) ==
    IF r.err = NoErr THEN
        IF StatusOK(r.code) THEN Returns(r.code, NoErr)
        ELSE Retry(StatusErr, RetryAfterBackoff(r.after, nw), ff, idx)
    ELSE IF IsNonRetryable(r.err) THEN Returns(0, r.err)
    ELSE IF IsUnrecoverableText(r.err) THEN Returns(0, r.err)
    ELSE IF IsDNSNotFound(r.err) THEN Returns(0, SetNotFound(r.err))
    ELSE Retry(r.err, 0, ff, idx)

(* -------------------------------- state ------------------------------- *)

VARIABLES
    badHosts,    \* c.badHosts: host -> seconds left until the entry expires
    ncalls,      \* number of calls of DoSigned made so far
    ctx,         \* r.Context() of each call: "live", "canceled", "deadline"
    pc,          \* where each call is: "idle", "loop", "backoff", "done"
    host,        \* r.URL.Hostname()
    ctxFastfail, \* gtscontext.IsFastfail(r.Context())
    fastFail,    \* the local fastFail
    deferred,    \* whether the deferred badHosts.Set is registered
    i,           \* the loop index
    after,       \* the "Retry-After" value of the response being handled
    backoff,     \* the local backoff, handed to time.After
    timer,       \* seconds left until the timer of time.After fires
    rsp,         \* the named result rsp (its status code; 0 is nil)
    err,         \* the named result err
    last,        \* the error c.do returned to the latest attempt
    attempts,    \* number of c.do calls made by the call
    waits,       \* number of backoff waits begun by the call
    sets,        \* number of badHosts.Set made by the call
    reads,       \* number of badHosts.Has made by the call
    verr,        \* what ValidateRequest(r) returned to the call
    open,        \* response bodies c.do handed to the call, not closed since
    body,        \* a response body as Client.do wraps it (see Client.do below)
    dial         \* a dial as the Sanitizer sees it (see the dialer below)

\* The state of the calls and of the cache.
callVars == <<badHosts, ncalls, ctx, pc, host, ctxFastfail, fastFail, deferred, i,
              after, backoff, timer, rsp, err, last, attempts, waits, sets,
              reads, verr, open>>

vars == <<callVars, body, dial>>

\* Variant of Has: no host is found.
HasNever(bh, h) == FALSE

\* c.badHosts.Has(host): presence, whatever the entry's expiry.
Has(bh, h) == h \in DOMAIN bh

\* Variant of Set: nothing is stored.
SetNothing(bh, h) == bh

\* Variant of Set: the expiry of an entry that exists is kept.
SetKeepsExpiry(bh, h) ==
    [x \in DOMAIN bh \cup {h} |->
        IF x = h /\ x \notin DOMAIN bh THEN badHostsTTL ELSE bh[x]]

\* c.badHosts.Set(host, struct{}{}): the entry expires one TTL from now.
Set(bh, h) ==
    [x \in DOMAIN bh \cup {h} |-> IF x = h THEN badHostsTTL ELSE bh[x]]

CallInit ==
    /\ badHosts = << >>
    /\ ncalls = 0
    /\ ctx = [c \in Calls |-> "live"]
    /\ pc = [c \in Calls |-> "idle"]
    /\ host = [c \in Calls |-> CHOOSE h \in Hosts : TRUE]
    /\ ctxFastfail = [c \in Calls |-> FALSE]
    /\ fastFail = [c \in Calls |-> FALSE]
    /\ deferred = [c \in Calls |-> FALSE]
    /\ i = [c \in Calls |-> 0]
    /\ after = [c \in Calls |-> HdrAbsent]
    /\ backoff = [c \in Calls |-> 0]
    /\ timer = [c \in Calls |-> 0]
    /\ rsp = [c \in Calls |-> 0]
    /\ err = [c \in Calls |-> NoErr]
    /\ last = [c \in Calls |-> NoErr]
    /\ attempts = [c \in Calls |-> 0]
    /\ waits = [c \in Calls |-> 0]
    /\ sets = [c \in Calls |-> 0]
    /\ reads = [c \in Calls |-> 0]
    /\ verr = [c \in Calls |-> NoErr]
    /\ open = [c \in Calls |-> 0]

\* No response body is being looked at.
NoBody == [st |-> "none"]

\* No dial is being looked at; no ranges are configured.
NoDial == [st |-> "none", allow |-> {}, block |-> {}]

Init == CallInit /\ body = NoBody /\ dial = NoDial

(* ------------------------------- inputs ------------------------------- *)

\* Results of ValidateRequest(r).
ValidateResults == {NoErr, ErrInvalidRequest, ErrInvalidNetwork}

StatusCodes == {200, 499, 429, 500, 503}

\* "Retry-After" values a response may carry: none, text, digit strings,
\* and dates before, at and after the instant the header is parsed.
RetryAfterValues ==
    { HdrAbsent, HdrGarbage,
      HdrInt(<<0>>), HdrInt(<<2>>), HdrInt(<<0, 4>>), HdrInt(<<1, 0>>), HdrInt(<<1, 2>>),
      HdrDate(Now - 4), HdrDate(Now), HdrDate(Now + 4), HdrDate(Now + 12) }

ContentLengths == {0 - 1, bodyMax, bodyMax + 1}

\* ctx.Err() of a context that is done.
CtxErr(st) == IF st = "deadline" THEN DeadlineExceeded ELSE Canceled

\* What http.Client{}.Do() can hand back to a call: the context's error once
\* the context is done, else any transport error or response.
TransportResults(c) ==
    IF ctx[c] # "live" THEN { RawErr(CtxErr(ctx[c])) }
    ELSE { RawErr(e) : e \in TransportErrors \cup {SignErr} }
         \cup { RawRsp(code, hdr, len) :
                    code \in StatusCodes,
                    hdr \in RetryAfterValues,
                    len \in ContentLengths }

(* ------------------------------- actions ------------------------------ *)

\* Variant of Return: the deferred function marks the host whatever the
\* error result is.
ReturnMarking(c, code, e) ==
    /\ pc' = [pc EXCEPT ![c] = "done"]
    /\ rsp' = [rsp EXCEPT ![c] = code]
    /\ err' = [err EXCEPT ![c] = e]
    /\ IF deferred[c]
       THEN /\ badHosts' = Set(badHosts, host[c])
            /\ sets' = [sets EXCEPT ![c] = @ + 1]
       ELSE UNCHANGED <<badHosts, sets>>
    /\ i' = [i EXCEPT ![c] = 0]
    /\ after' = [after EXCEPT ![c] = HdrAbsent]
    /\ backoff' = [backoff EXCEPT ![c] = 0]
    /\ timer' = [timer EXCEPT ![c] = 0]

\* A return of DoSigned with (code, e) once the loop was entered: the
\* results are set, the deferred function, when registered, marks the host
\* on an error, and the locals of the call are gone.
Return(c, code, e) ==
    /\ pc' = [pc EXCEPT ![c] = "done"]
    /\ rsp' = [rsp EXCEPT ![c] = code]
    /\ err' = [err EXCEPT ![c] = e]
    /\ IF deferred[c] /\ e # NoErr
       THEN /\ badHosts' = Set(badHosts, host[c])
            /\ sets' = [sets EXCEPT ![c] = @ + 1]
       ELSE UNCHANGED <<badHosts, sets>>
    /\ i' = [i EXCEPT ![c] = 0]
    /\ after' = [after EXCEPT ![c] = HdrAbsent]
    /\ backoff' = [backoff EXCEPT ![c] = 0]
    /\ timer' = [timer EXCEPT ![c] = 0]

\* Variant of DeferSet: the deferred function is always registered.
DeferSetAlways(ff) == TRUE

\* Whether DoSigned registers the deferred badHosts.Set: inside the branch
\* `if !fastFail`, taken when the context carries no fast-fail flag.
DeferSet(ff) == ~ff

\* Variant of ValidationFails: the result of the validation is ignored.
ValidationNeverFails(v) == FALSE

\* `if err := ValidateRequest(r); err != nil`, the first statement of
\* DoSigned.
ValidationFails(v) == v # NoErr

\* A caller enters DoSigned (or Do) with a fresh request: validation, the
\* hostname, the fast-fail decision and the deferred function.
Call(c) ==
    /\ pc[c] \in {"idle", "done"}
    /\ ncalls < MaxCalls
    /\ ncalls' = ncalls + 1
    /\ \E h \in Hosts, v \in ValidateResults, ff \in BOOLEAN :
        /\ host' = [host EXCEPT ![c] = h]
        /\ ctxFastfail' = [ctxFastfail EXCEPT ![c] = ff]
        /\ ctx' = [ctx EXCEPT ![c] = "live"]
        /\ last' = [last EXCEPT ![c] = NoErr]
        /\ attempts' = [attempts EXCEPT ![c] = 0]
        /\ waits' = [waits EXCEPT ![c] = 0]
        /\ sets' = [sets EXCEPT ![c] = 0]
        /\ rsp' = [rsp EXCEPT ![c] = 0]
        /\ verr' = [verr EXCEPT ![c] = v]
        /\ open' = [open EXCEPT ![c] = 0]
        /\ reads' = [reads EXCEPT ![c] =
                         IF ValidationFails(v) \/ ff THEN 0 ELSE 1]
        /\ IF ValidationFails(v)
           THEN \* return nil, err: before the cache is looked at
                /\ pc' = [pc EXCEPT ![c] = "done"]
                /\ err' = [err EXCEPT ![c] = v]
                /\ fastFail' = [fastFail EXCEPT ![c] = FALSE]
                /\ deferred' = [deferred EXCEPT ![c] = FALSE]
           ELSE /\ pc' = [pc EXCEPT ![c] = "loop"]
                /\ err' = [err EXCEPT ![c] = NoErr]
                /\ fastFail' = [fastFail EXCEPT ![c] =
                                   IF ff THEN TRUE ELSE Has(badHosts, h)]
                /\ deferred' = [deferred EXCEPT ![c] = DeferSet(ff)]
    /\ UNCHANGED <<badHosts, i, after, backoff, timer, body, dial>>

\* Variant of Discards: the loop closes no body.
DiscardsNothing(r) == 0

\* `_ = rsp.Body.Close(); rsp = nil`: the bodies the loop closes on the
\* result `r` of c.do(r), the one of a response it does not return.
Discards(r) == IF r.err = NoErr /\ ~StatusOK(r.code) THEN 1 ELSE 0

\* The bodies c.do(r) hands over open: the one of the response it returns.
\* With an error it returns no response (a body too large was closed by it).
Opens(r) == IF r.err = NoErr THEN 1 ELSE 0

\* Variant of LoopFastFail: the cache is looked at again at each attempt.
LoopFastFailConsulting(c) == fastFail[c] \/ Has(badHosts, host[c])

\* The fastFail that `if fastFail` tests in the loop: the local set before
\* the loop and not assigned in it.
LoopFastFail(c) == fastFail[c]

\* One iteration of the loop: c.do(r), the classification of its result,
\* and either a return or the start of the backoff wait.
Attempt(c) ==
    /\ pc[c] = "loop"
    /\ \E raw \in TransportResults(c) :
        LET r == do(raw)
            it == Iteration(r, LoopFastFail(c), i[c], Now)
        IN  /\ last' = [last EXCEPT ![c] = r.err]
            /\ attempts' = [attempts EXCEPT ![c] = @ + 1]
            /\ open' = [open EXCEPT ![c] = @ + Opens(r) - Discards(r)]
            /\ IF it.kind = "return"
               THEN /\ Return(c, it.rsp, it.err)
                    /\ UNCHANGED waits
               ELSE /\ pc' = [pc EXCEPT ![c] = "backoff"]
                    /\ rsp' = [rsp EXCEPT ![c] = 0]
                    /\ err' = [err EXCEPT ![c] = it.err]
                    /\ after' = [after EXCEPT ![c] = r.after]
                    /\ backoff' = [backoff EXCEPT ![c] = it.backoff]
                    /\ timer' = [timer EXCEPT ![c] = it.backoff]
                    /\ waits' = [waits EXCEPT ![c] = @ + 1]
                    /\ UNCHANGED <<badHosts, sets, i>>
    /\ UNCHANGED <<ncalls, ctx, host, ctxFastfail, fastFail, deferred,
                   reads, verr, body, dial>>

\* Variant of BackoffElapsed: the loop neither counts nor tests.
BackoffElapsedUncounted(c) ==
    /\ pc[c] = "backoff"
    /\ timer[c] = 0
    /\ pc' = [pc EXCEPT ![c] = "loop"]
    /\ after' = [after EXCEPT ![c] = HdrAbsent]
    /\ backoff' = [backoff EXCEPT ![c] = 0]
    /\ UNCHANGED <<badHosts, ncalls, ctx, host, ctxFastfail, fastFail, deferred,
                   i, timer, rsp, err, last, attempts, waits, sets, reads, verr,
                   open,
                   body, dial>>

\* case <-time.After(backoff): the timer fired; i++ and the loop test, which
\* ends the call with the max-retries error after the last attempt.
BackoffElapsed(c) ==
    /\ pc[c] = "backoff"
    /\ timer[c] = 0
    /\ IF i[c] + 1 < maxRetries
       THEN /\ pc' = [pc EXCEPT ![c] = "loop"]
            /\ i' = [i EXCEPT ![c] = @ + 1]
            /\ after' = [after EXCEPT ![c] = HdrAbsent]
            /\ backoff' = [backoff EXCEPT ![c] = 0]
            /\ UNCHANGED <<rsp, err, badHosts, sets, timer>>
       ELSE Return(c, rsp[c], MaxRetriesErr)
    /\ UNCHANGED <<ncalls, ctx, host, ctxFastfail, fastFail, deferred,
                   last, attempts, waits, reads, verr, open,
                   body, dial>>

\* case <-r.Context().Done(): return nil, r.Context().Err(). When the timer
\* has fired as well (timer = 0) either case may be the one taken.
CtxDone(c) ==
    /\ pc[c] = "backoff"
    /\ ctx[c] # "live"
    /\ Return(c, 0, CtxErr(ctx[c]))
    /\ UNCHANGED <<ncalls, ctx, host, ctxFastfail, fastFail, deferred,
                   last, attempts, waits, reads, verr, open,
                   body, dial>>

\* The caller cancels the request's context, or its deadline passes.
CtxCancel(c) ==
    /\ pc[c] \in {"loop", "backoff"}
    /\ ctx[c] = "live"
    /\ \E st \in {"canceled", "deadline"} : ctx' = [ctx EXCEPT ![c] = st]
    /\ UNCHANGED <<badHosts, ncalls, pc, host, ctxFastfail, fastFail, deferred,
                   i, after, backoff, timer, rsp, err, last, attempts, waits, sets,
                   reads, verr, open, body, dial>>

\* Variant of Waiting: the context plays no part.
WaitingAnyContext == { c \in Calls : pc[c] = "backoff" }

\* The calls blocked in the select on r.Context().Done() and the timer of
\* time.After(backoff). The timer is new and set to a positive duration,
\* so the select finds neither channel ready unless the context is done
\* already, and afterwards the first channel to become ready decides the
\* case: once the context is done with the timer not yet fired, the call
\* no longer waits for the timer.
Waiting == { c \in Calls : pc[c] = "backoff" /\ ctx[c] = "live" }

\* How far time may pass at most: no running timer is passed over, and no
\* expired entry outlives the sweep that follows its expiry, which comes
\* within sweepFreq.
Horizon ==
    { timer[c] : c \in Waiting } \cup { badHosts[h] + sweepFreq : h \in DOMAIN badHosts }

\* The distances to the instants at which something happens: a timer fires,
\* an entry expires, an expired entry is due to be swept.
Due ==
    { d \in Horizon \cup { badHosts[h] : h \in DOMAIN badHosts } : d > 0 }

\* d seconds pass, up to the next instant at which something happens.
Tick ==
    /\ \A d \in Horizon : d > 0
    /\ \E d \in Due :
        /\ \A e \in Due : d <= e
        /\ timer' = [c \in Calls |-> IF c \in Waiting THEN timer[c] - d ELSE timer[c]]
        /\ badHosts' = [h \in DOMAIN badHosts |-> badHosts[h] - d]
    /\ UNCHANGED <<ncalls, ctx, pc, host, ctxFastfail, fastFail, deferred, i,
                   after, backoff, rsp, err, last, attempts, waits, sets,
                   reads, verr, open, body, dial>>

\* A sweep of the cache, started by c.badHosts.Start(time.Minute): the
\* entries whose expiry has passed are dropped.
Sweep ==
    /\ \E h \in DOMAIN badHosts : badHosts[h] <= 0
    /\ badHosts' = [h \in { x \in DOMAIN badHosts : badHosts[x] > 0 } |-> badHosts[h]]
    /\ UNCHANGED <<ncalls, ctx, pc, host, ctxFastfail, fastFail, deferred, i,
                   after, backoff, timer, rsp, err, last, attempts, waits, sets,
                   reads, verr, open, body, dial>>

Next ==
    \/ \E c \in Solo : Call(c)
    \/ \E c \in Solo : Attempt(c)
    \/ \E c \in Solo : BackoffElapsed(c)
    \/ \E c \in Solo : CtxDone(c)
    \/ \E c \in Solo : CtxCancel(c)
    \/ Tick
    \/ Sweep

Spec == Init /\ [][Next]_vars

(* ----------------------------- two callers ---------------------------- *)

\* The runs in which two goroutines call DoSigned on the same client at the
\* same time, for the same host. What the requests and the server may be
\* is narrowed to what matters between two calls: valid requests, and
\* attempts that end in a 200 response, in a 503 response without
\* "Retry-After", in a refused connection, or in the error of a context
\* that is done.
PairHost == "a.example"

PairOutcomes ==
    {NoErr, Err("none", "connection refused", "none", "none"),
     DeadlineExceeded, Canceled}

PairCall(c) ==
    Call(c) /\ host'[c] = PairHost /\ verr'[c] = NoErr

PairAttempt(c) ==
    /\ Attempt(c)
    /\ last'[c] \in PairOutcomes
    /\ rsp'[c] \in {0, 200}
    /\ after'[c] = HdrAbsent

PairNext ==
    \/ \E c \in Calls : PairCall(c)
    \/ \E c \in Calls : PairAttempt(c)
    \/ \E c \in Calls : BackoffElapsed(c)
    \/ \E c \in Calls : CtxDone(c)
    \/ \E c \in Calls : CtxCancel(c)
    \/ Tick
    \/ Sweep

PairSpec == Init /\ [][PairNext]_vars

\* Two calls running at the same time, one of each goroutine, under the
\* scheduling the code relies on: a transmission returns (c.do comes back),
\* a goroutine whose select has a ready case runs, time passes, so that a
\* timer set by time.After fires, and the sweeper started by
\* c.badHosts.Start runs.
FairCall(c) == PairCall(c) /\ pc[c] = "idle"

FairCtxCancel(c) == CtxCancel(c) /\ ctx'[c] = "canceled"

FairPairNext ==
    \/ \E c \in Calls : FairCall(c)
    \/ \E c \in Calls : PairAttempt(c)
    \/ \E c \in Calls : BackoffElapsed(c)
    \/ \E c \in Calls : CtxDone(c)
    \/ \E c \in Calls : FairCtxCancel(c)
    \/ Tick
    \/ Sweep

PairFairness ==
    /\ \A c \in Calls : WF_vars(PairAttempt(c))
    /\ \A c \in Calls : WF_vars(BackoffElapsed(c))
    /\ \A c \in Calls : WF_vars(CtxDone(c))
    /\ WF_vars(Tick)
    /\ WF_vars(Sweep)

FairPairSpec == Init /\ [][FairPairNext]_vars /\ PairFairness

(* --------------------------- a response body -------------------------- *)

\* The ContentLength a response may declare: unknown (-1), or a length up
\* to one byte above c.bodyMax.
BodyLengths == (0 - 1) .. (bodyMax + 1)

\* How many bytes the server may send as the body: up to two above
\* c.bodyMax, whatever length it declared.
BodySent == 0 .. (bodyMax + 2)

BodyMin(a, b) == IF a < b THEN a ELSE b

\* How many bytes the body http.Client{}.Do() returned yields before it
\* ends: what was sent, and no more than the declared length when one was
\* declared (net/http ends the body there).
BodySize(length, sent) ==
    IF length < 0 THEN sent ELSE BodyMin(sent, length)

\* io.EOF and io.ErrUnexpectedEOF, as Read returns them.
EOF == Err("EOF", "EOF", "none", "none")

ErrUnexpectedEOF == Err("ErrUnexpectedEOF", "unexpected EOF", "none", "none")

\* The body of a response as Client.do wraps it: the status code of the
\* response, the declared length, the bytes sent, the bytes the underlying
\* body yields in all (size) and still (avail), the bytes the limit reader
\* still lets through (limit), the bytes handed to the reader of the wrapped
\* body (read), the error of its last Read (rerr), the bytes discarded by
\* Close (drained), whether the underlying body is closed, and the bytes
\* the limit reader would still have yielded when it was closed (left).
WrappedBody(code, length, sent) ==
    [st |-> "open", code |-> code, length |-> length, sent |-> sent,
     size |-> BodySize(length, sent), avail |-> BodySize(length, sent),
     limit |-> ReadLimit(length), read |-> 0, rerr |-> NoErr, drained |-> 0,
     closed |-> FALSE, left |-> 0, err |-> NoErr]

\* discard.ReadFrom(rbody): the limit reader is read to its end and the
\* bytes are thrown away. A closed body yields nothing more.
Drain(b) ==
    LET n == IF b.closed THEN 0 ELSE BodyMin(b.limit, b.avail)
    IN  [b EXCEPT !.drained = @ + n, !.avail = @ - n, !.limit = @ - n]

\* cbody.Close(): the body http.Client{}.Do() returned is closed, with
\* whatever the limit reader would still have yielded.
CloseUnderlying(b) ==
    [b EXCEPT !.st = "closed", !.closed = TRUE,
              !.left = BodyMin(b.limit, b.avail)]

\* Variant of Closed: the underlying body is closed, then the callback runs.
ClosedThenDrained(b) == Drain(CloseUnderlying(b))

\* rsp.Body.Close() on the wrapped body, the closer made by
\* iotools.CloserAfterCallback: the callback drains the limit reader, then
\* the underlying body is closed.
Closed(b) == CloseUnderlying(Drain(b))

\* Client.do on a response of the transport: the body is wrapped, and when
\* the declared length is above c.bodyMax it is closed and the response
\* dropped for ErrBodyTooLarge.
BodyDo ==
    /\ body.st = "none"
    /\ \E code \in StatusCodes, length \in BodyLengths, sent \in BodySent :
            LET r == do(RawRsp(code, HdrAbsent, length))
                b == WrappedBody(code, length, sent)
            IN  body' = IF r.err # NoErr
                        THEN [Closed(b) EXCEPT !.st = "failed", !.err = r.err]
                        ELSE b
    /\ UNCHANGED <<callVars, dial>>

\* The caller reads k bytes from the body of a response DoSigned returned
\* to it.
BodyRead ==
    /\ body.st = "open"
    /\ StatusOK(body.code)
    /\ body.rerr = NoErr
    /\ \E k \in 1 .. BodyMin(body.limit, body.avail) :
         body' = [body EXCEPT !.read = @ + k, !.avail = @ - k, !.limit = @ - k]
    /\ UNCHANGED <<callVars, dial>>

\* Variant of ReadEnd: a limit reader that reports the bytes it holds back.
ReadEndTooLarge(b) ==
    IF b.limit = 0 /\ b.sent > b.read THEN ErrBodyTooLarge
    ELSE IF b.length >= 0 /\ b.sent < b.length THEN ErrUnexpectedEOF
    ELSE EOF

\* What Read returns when no byte is left to hand out: io.EOF from the
\* limit reader once its limit is used up, else what the underlying body
\* ends with, io.EOF or, when fewer bytes came than were declared,
\* io.ErrUnexpectedEOF.
ReadEnd(b) ==
    IF b.limit = 0 THEN EOF
    ELSE IF b.length >= 0 /\ b.sent < b.length THEN ErrUnexpectedEOF
    ELSE EOF

\* The caller reads from the body of a response DoSigned returned to it
\* when no byte is left to hand out.
BodyReadEnd ==
    /\ body.st = "open"
    /\ StatusOK(body.code)
    /\ body.rerr = NoErr
    /\ BodyMin(body.limit, body.avail) = 0
    /\ body' = [body EXCEPT !.rerr = ReadEnd(body)]
    /\ UNCHANGED <<callVars, dial>>

\* The caller closes the body of the response it was given, or DoSigned
\* that of a response it retries on (`_ = rsp.Body.Close()`).
BodyClose ==
    /\ body.st = "open"
    /\ body' = Closed(body)
    /\ UNCHANGED <<callVars, dial>>

BodyNext == BodyDo \/ BodyRead \/ BodyReadEnd \/ BodyClose

BodySpec == Init /\ [][BodyNext]_vars

(* ------------------------------ the dialer ---------------------------- *)

\* An address is a sequence of AddrBits bits, a prefix the sequence of the
\* leading bits of the addresses it holds.
BitStrings(n) == [1 .. n -> {0, 1}]

Addrs == BitStrings(AddrBits)

Prefixes == BitStrings(1) \cup BitStrings(2)

\* Config.AllowRanges / Config.BlockRanges: up to MaxPrefixes prefixes.
PrefixLists == { l \in SUBSET Prefixes : Cardinality(l) <= MaxPrefixes }

\* netip.Prefix.Contains
Contains(p, a) == \A k \in DOMAIN p : k \in DOMAIN a /\ a[k] = p[k]

InAny(l, a) == \E p \in l : Contains(p, a)

\* The ranges the default policy denies: loopback, link-local, private and
\* other reserved ranges, here three ranges of the small address space.
ReservedRanges == { <<0, 0>>, <<1, 0, 1>>, <<1, 1, 1>> }

IsReserved(a) == InAny(ReservedRanges, a)

\* Variant of Sanitize: the allow list is looked at first.
SanitizeAllowFirst(allow, block, a) ==
    IF InAny(allow, a) THEN NoErr
    ELSE IF InAny(block, a) THEN ErrReservedAddr
    ELSE IF IsReserved(a) THEN ErrReservedAddr
    ELSE NoErr

\* Sanitizer.Sanitize on the address about to be dialled: denied when in a
\* block prefix, else accepted when in an allow prefix, else the default
\* policy.
Sanitize(allow, block, a) ==
    IF InAny(block, a) THEN ErrReservedAddr
    ELSE IF InAny(allow, a) THEN NoErr
    ELSE IF IsReserved(a) THEN ErrReservedAddr
    ELSE NoErr

\* New with some Config.AllowRanges and Config.BlockRanges.
DialInit ==
    /\ CallInit
    /\ body = NoBody
    /\ dial \in { [st |-> "none", allow |-> al, block |-> bl] :
                     al \in PrefixLists, bl \in PrefixLists }

\* The dialer is about to connect to an address: d.Control, which is
\* (&Sanitizer{Allow: cfg.AllowRanges, Block: cfg.BlockRanges}).Sanitize,
\* permits or denies it.
Dial ==
    /\ \E a \in Addrs :
         dial' = [st |-> "dialled", allow |-> dial.allow, block |-> dial.block,
                  addr |-> a, err |-> Sanitize(dial.allow, dial.block, a)]
    /\ UNCHANGED <<callVars, body>>

DialNext == Dial

DialSpec == DialInit /\ [][DialNext]_vars

(* ------------------------------- claims ------------------------------- *)

\* A call that has returned.
Done(c) == pc[c] = "done"

\* An error of one of the kinds DoSigned treats as final: found by
\* errors.Is among the four sentinels, or carrying one of the three texts.
FinalKind(e) ==
    \/ e.sentinel \in {"DeadlineExceeded", "Canceled", "ErrBodyTooLarge", "ErrReservedAddr"}
    \/ e.text \in {"stopped after 10 redirects", "tls: ", "x509: "}

\* The step is the return of call c from DoSigned.
ReturnStep(c) == pc[c] # "done" /\ pc'[c] = "done"

\* C1: a call that has returned holds either a response and no error, or no
\* response and an error; a returned response has a status below 500 that
\* is not 429.
C1_ResponseXorError ==
    \A c \in Calls :
        Done(c) =>
            \/ rsp[c] # 0 /\ err[c] = NoErr /\ last[c] = NoErr
                 /\ rsp[c] < 500 /\ rsp[c] # 429
            \/ rsp[c] = 0 /\ err[c] # NoErr

\* C1 witness: a response with status 499 returned by the third attempt.
C1_Witness ==
    \E c \in Calls :
        Done(c) /\ rsp[c] = 499 /\ err[c] = NoErr /\ attempts[c] = 3

\* C2, state part: never more than 5 calls of c.do, the loop index stays
\* in 0..4, and the max-retries error comes only after 5 attempts each
\* followed by a wait.
C2_Bounded ==
    \A c \in Calls :
        /\ attempts[c] <= 5
        /\ i[c] \in 0..4
        /\ pc[c] = "loop" => attempts[c] = i[c]
        /\ pc[c] = "backoff" => attempts[c] = i[c] + 1 /\ ~fastFail[c]
        /\ Done(c) /\ err[c] = MaxRetriesErr =>
               attempts[c] = 5 /\ waits[c] = 5 /\ rsp[c] = 0

\* C2, step part: the wait after the fifth attempt of a call whose context
\* is live ends in the return of the max-retries error, not in an attempt.
C2_FifthWaitEnds ==
    \A c \in Calls :
        (pc[c] = "backoff" /\ attempts[c] = 5 /\ ctx[c] = "live" /\ pc'[c] # "backoff")
            => /\ pc'[c] = "done"
               /\ err'[c] = MaxRetriesErr
               /\ rsp'[c] = 0
               /\ attempts'[c] = 5

\* C2: a call makes at most 5 attempts, and five retry candidates in a row,
\* without fast-fail or cancellation, end in the max-retries error.
C2_AtMostFiveAttempts == []C2_Bounded /\ [][C2_FifthWaitEnds]_vars

\* C2 witness: a call returned the max-retries error after 5 attempts.
C2_Witness ==
    \E c \in Calls :
        Done(c) /\ err[c] = MaxRetriesErr /\ attempts[c] = 5 /\ ctx[c] = "live"

\* The waits of the exponential fallback, by attempt index (seconds).
C3_Fallback == <<4, 8, 16, 32, 64>>

\* C3: a wait that follows a transport error, or a response without a
\* "Retry-After" value or with one that is no number and no date, lasts
\* 4, 8, 16, 32, 64 seconds after attempt 0, 1, 2, 3, 4; the index grows by
\* one from each wait to the next attempt.
C3_ExponentialFallback ==
    /\ [](\A c \in Calls :
            (pc[c] = "backoff" /\ after[c].kind \in {"absent", "garbage"})
                => /\ backoff[c] = C3_Fallback[i[c] + 1]
                   /\ timer[c] \in 0..backoff[c])
    /\ [][\A c \in Calls :
            (pc[c] = "backoff" /\ pc'[c] = "loop") => i'[c] = i[c] + 1 /\ timer[c] = 0]_vars

\* C3 witness: the wait of 64 seconds after the fifth 5xx / 429 response
\* without a "Retry-After".
C3_Witness ==
    \E c \in Calls :
        /\ pc[c] = "backoff" /\ i[c] = 4 /\ backoff[c] = 64
        /\ after[c] = HdrAbsent /\ err[c] = StatusErr

\* min of two durations.
C4_Min(a, b) == IF a < b THEN a ELSE b

\* C4: a wait that follows a response whose "Retry-After" is a number
\* N >= 1 lasts min(N, 10) seconds, and one whose "Retry-After" is a date
\* D > 0 seconds ahead lasts min(D, 10) seconds, at every attempt index.
C4_RetryAfterHonoured ==
    \A c \in Calls :
        pc[c] = "backoff" =>
            /\ (after[c].kind = "int" /\ DecimalValue(after[c].digits) >= 1)
                  => backoff[c] = C4_Min(DecimalValue(after[c].digits), 10)
            /\ (after[c].kind = "date" /\ after[c].at > Now)
                  => backoff[c] = C4_Min(after[c].at - Now, 10)

\* C4 witness: "Retry-After: 2" after the third attempt, a wait of 2 seconds
\* where the fallback would be 16.
C4_Witness ==
    \E c \in Calls :
        pc[c] = "backoff" /\ i[c] = 2 /\ after[c] = HdrInt(<<2>>) /\ backoff[c] = 2

\* The response being handled carries a "Retry-After" date in the past.
C5_PastDate(c) ==
    pc[c] = "backoff" /\ after[c].kind = "date" /\ after[c].at < Now

\* C5 as claimed: after a "Retry-After" date in the past the wait is 0.
C5_PastDateImmediate ==
    \A c \in Calls : C5_PastDate(c) => backoff[c] = 0

\* C5 amended: a "Retry-After" date in the past gives no backoff of its
\* own (0, never negative), and the wait is the exponential fallback of the
\* attempt index.
C5_PastDateFallsBack ==
    \A c \in Calls :
        C5_PastDate(c) =>
            /\ RetryAfterBackoff(after[c], Now) = 0
            /\ backoff[c] = 2 * 2 ^ (i[c] + 1)

\* C5 witness: a past date after the second attempt, a wait of 8 seconds.
C5_Witness ==
    \E c \in Calls : C5_PastDate(c) /\ i[c] = 1 /\ backoff[c] = 8

\* C6: once c.do has returned an error of a final kind the call has
\* returned, with no response and with that very error, and no wait was
\* begun after that attempt.
C6_FinalErrorsReturnAtOnce ==
    \A c \in Calls :
        FinalKind(last[c]) =>
            /\ Done(c)
            /\ rsp[c] = 0
            /\ err[c] = last[c]
            /\ waits[c] = attempts[c] - 1

\* C6 witness: a reserved-address error at the third attempt ended the call.
C6_Witness ==
    \E c \in Calls :
        Done(c) /\ last[c] = ErrReservedAddr /\ err[c] = ErrReservedAddr
            /\ attempts[c] = 3 /\ waits[c] = 2

\* C7 as claimed: a DNS error flagged not-found ends the call at that
\* attempt with the error marked not-found; a DNS error not so flagged is
\* retried: waited upon, or returned as a fast-fail.
C7_DNSNotFoundClassified ==
    \A c \in Calls :
        /\ last[c].dns = "notfound" =>
              Done(c) /\ rsp[c] = 0 /\ err[c] = SetNotFound(last[c])
                 /\ waits[c] = attempts[c] - 1
        /\ (last[c].dns = "other" /\ Done(c) /\ waits[c] < attempts[c]) =>
              err[c] = FastFailErr(last[c])

\* C8, state part: a call whose fastFail is set never waits, and returns
\* at its first attempt, with the response when that attempt gave one.
C8_OneAttempt ==
    \A c \in Calls :
        (fastFail[c] /\ pc[c] # "idle") =>
            /\ pc[c] \in {"loop", "done"}
            /\ waits[c] = 0
            /\ pc[c] = "loop" => attempts[c] = 0
            /\ Done(c) => /\ attempts[c] = 1
                          /\ last[c] = NoErr /\ rsp[c] # 0 => err[c] = NoErr
                          /\ rsp[c] = 0 => err[c] # NoErr

\* C8, step part: fastFail is set on entering the loop exactly when the
\* context carries the flag or the host is in the cache.
C8_FastFailDecided ==
    \A c \in Calls :
        (pc[c] \in {"idle", "done"} /\ pc'[c] = "loop") =>
            fastFail'[c] = (ctxFastfail'[c] \/ host'[c] \in DOMAIN badHosts)

\* C8: a fast-fail call makes exactly one attempt and never waits.
C8_FastFailOneAttempt == []C8_OneAttempt /\ [][C8_FastFailDecided]_vars

\* C8 witness: a call that found its host in the cache returned the
\* fast-fail error of its only attempt.
C8_Witness ==
    \E c \in Calls :
        Done(c) /\ fastFail[c] /\ ~ctxFastfail[c] /\ attempts[c] = 1
            /\ err[c] = FastFailErr(StatusErr)

\* C9 as claimed: only a call that returned an error and whose fastFail
\* was not set has written to the cache.
C9_NoWriteWhenFastFail ==
    \A c \in Calls :
        sets[c] > 0 => Done(c) /\ err[c] # NoErr /\ ~fastFail[c]

\* The step stores or refreshes the entry of host h.
C9_Written(h) ==
    /\ h \in DOMAIN badHosts'
    /\ h \in DOMAIN badHosts => badHosts'[h] > badHosts[h]

\* C9 amended: the cache is written only by the error return of a call
\* whose context carries no fast-fail flag, and only for that call's host;
\* a call with the flag never writes, while a call whose fastFail comes from
\* the host being in the cache writes on its error return like any other.
C9_NoWriteWhenContextFastFail ==
    /\ [](\A c \in Calls :
            /\ sets[c] > 0 => Done(c) /\ err[c] # NoErr /\ ~ctxFastfail[c]
            /\ ctxFastfail[c] => sets[c] = 0)
    /\ [][\A h \in Hosts :
            C9_Written(h) =>
                \E c \in Calls :
                    /\ ReturnStep(c) /\ host[c] = h /\ ~ctxFastfail[c]
                    /\ err'[c] # NoErr /\ sets'[c] = sets[c] + 1]_vars

\* C9 witness: a call whose fastFail came from the cache has written.
C9_Witness ==
    \E c \in Calls :
        Done(c) /\ fastFail[c] /\ ~ctxFastfail[c] /\ sets[c] = 1
            /\ host[c] \in DOMAIN badHosts /\ badHosts[host[c]] = badHostsTTL

\* C10: the return of an error by a call that made an attempt and whose
\* fastFail is not set leaves the call's host in the cache with a full TTL,
\* whatever the error.
C10_ErrorMarksHost ==
    /\ [](\A c \in Calls :
            (Done(c) /\ attempts[c] >= 1 /\ ~fastFail[c] /\ err[c] # NoErr)
                => sets[c] = 1)
    /\ [][\A c \in Calls :
            (ReturnStep(c) /\ attempts'[c] >= 1 /\ ~fastFail[c] /\ err'[c] # NoErr)
                => /\ host[c] \in DOMAIN badHosts'
                   /\ badHosts'[host[c]] = 3600]_vars

\* C10 witness: the cancellation of the context during a wait marked the
\* host.
C10_Witness ==
    \E c \in Calls :
        /\ Done(c) /\ err[c] = Canceled /\ last[c] # Canceled /\ ~fastFail[c]
        /\ sets[c] = 1 /\ host[c] \in DOMAIN badHosts
        /\ badHosts[host[c]] = badHostsTTL

\* C19, state part: a call whose request failed the validation has
\* returned that very error and no response, has made no attempt and begun
\* no wait, and has neither read nor written the cache.
C19_NothingDone ==
    \A c \in Calls :
        verr[c] # NoErr =>
            /\ Done(c) /\ rsp[c] = 0 /\ err[c] = verr[c]
            /\ attempts[c] = 0 /\ waits[c] = 0
            /\ reads[c] = 0 /\ sets[c] = 0

\* C19, step part: the validation's result is set by the step that enters
\* DoSigned and by no later one, so before any attempt, and the entry of a
\* call whose validation fails leaves the cache as it was.
C19_ValidatedOnEntry ==
    \A c \in Calls :
        /\ verr'[c] # verr[c] => pc[c] \in {"idle", "done"} /\ attempts'[c] = 0
        /\ attempts'[c] # attempts[c] /\ attempts'[c] # 0 => verr'[c] = verr[c]
        /\ (ncalls' # ncalls /\ verr'[c] # NoErr) => badHosts' = badHosts

\* C19: the request is validated once, before the loop, and a failed
\* validation ends the call with that error: no transmission, no wait, no
\* read and no write of the cache.
C19_ValidationFailsFirst == []C19_NothingDone /\ [][C19_ValidatedOnEntry]_vars

\* C19 witness: a call for a host that is in the cache returned the
\* invalid-network error of the validation.
C19_Witness ==
    \E c \in Calls :
        /\ Done(c) /\ verr[c] = ErrInvalidNetwork /\ err[c] = ErrInvalidNetwork
        /\ host[c] \in DOMAIN badHosts /\ reads[c] = 0

\* The context of call c is done while the call waits and its timer has
\* not fired: the cancellation came during the backoff wait.
C13_CancelledInWait(c) ==
    pc[c] = "backoff" /\ ctx[c] # "live" /\ timer[c] > 0

\* C13, state part: a call cancelled during a wait can return at once.
C13_CanReturn ==
    \A c \in Calls : C13_CancelledInWait(c) => ENABLED CtxDone(c)

\* C13, step part: for a call cancelled during a wait the timer no longer
\* runs, and the only step the call takes is the return of the context's
\* error with no response: no further attempt, no max-retries error, after
\* the last attempt as after any other.
C13_OnlyCtxErr ==
    \A c \in Calls :
        C13_CancelledInWait(c) =>
            /\ pc'[c] = "backoff" => timer'[c] = timer[c] /\ ctx'[c] = ctx[c]
            /\ pc'[c] # "backoff" =>
                  /\ pc'[c] = "done"
                  /\ err'[c] = CtxErr(ctx[c])
                  /\ err'[c] # MaxRetriesErr
                  /\ rsp'[c] = 0
                  /\ attempts'[c] = attempts[c]
                  /\ waits'[c] = waits[c]

\* C13: a cancellation of the context during a backoff wait ends the call
\* with the context's error, without the rest of the wait and never with
\* the max-retries error.
C13_CancelWins == []C13_CanReturn /\ [][C13_OnlyCtxErr]_vars

\* C13 witness: the context was cancelled during the wait of 64 seconds
\* that follows the fifth attempt.
C13_Witness ==
    \E c \in Calls :
        /\ C13_CancelledInWait(c) /\ ctx[c] = "canceled"
        /\ attempts[c] = 5 /\ i[c] = 4 /\ timer[c] = 64

\* C12, state part: an entry has at most the TTL of one hour left, and one
\* whose hour has elapsed is dropped by a sweep that can run at once and
\* comes no later than a minute after the expiry.
C12_WithinTTL ==
    \A h \in DOMAIN badHosts :
        /\ badHosts[h] <= 3600
        /\ badHosts[h] >= 0 - 60
        /\ badHosts[h] <= 0 => ENABLED Sweep

\* C12, step part: a write of an entry (the error return of a call that
\* registered the deferred Set) leaves it with the full hour whatever was
\* left of it; a step that writes no entry lets every entry age by the
\* time that passes, the same for all; the lookup of a call entering
\* DoSigned leaves every entry as it was.
C12_SlidingOnWrite ==
    /\ \A c \in Calls :
          sets'[c] = sets[c] + 1 =>
              /\ host[c] \in DOMAIN badHosts'
              /\ badHosts'[host[c]] = 3600
              /\ \A h \in DOMAIN badHosts \ {host[c]} :
                    h \in DOMAIN badHosts' /\ badHosts'[h] = badHosts[h]
    /\ (\A c \in Calls : sets'[c] = sets[c] \/ sets'[c] = 0) =>
          /\ DOMAIN badHosts' \subseteq DOMAIN badHosts
          /\ \A h, g \in DOMAIN badHosts' :
                /\ badHosts'[h] <= badHosts[h]
                /\ badHosts[h] - badHosts'[h] = badHosts[g] - badHosts'[g]
    /\ \A c \in Calls :
          (ncalls' # ncalls /\ reads'[c] = 1) => badHosts' = badHosts

C16_SignedEachAttempt ==
    \A c \in Calls : SignInvocations(attempts[c]) = attempts[c]

C11_Enters(d) == pc[d] \in {"idle", "done"} /\ pc'[d] = "loop"

\* C11 as claimed: a call that starts while another call, one without the
\* fast-fail flag, is between two attempts for the same host (one attempt
\* has failed and it waits to retry) has its fastFail set.
C11_FailureSeenAtOnce ==
    [][\A c, d \in Calls :
          (c # d /\ pc[c] = "backoff" /\ ~ctxFastfail[c]
                 /\ C11_Enters(d) /\ host'[d] = host[c])
              => fastFail'[d]]_vars

\* C11 amended, state part: a call whose fastFail is set never waits, and
\* has returned after one attempt, with an error when that attempt failed.
C11_NoWait ==
    \A d \in Calls :
        (fastFail[d] /\ pc[d] # "idle") =>
            /\ waits[d] = 0
            /\ pc[d] # "backoff"
            /\ Done(d) => attempts[d] = 1
            /\ Done(d) /\ last[d] # NoErr => rsp[d] = 0 /\ err[d] # NoErr

\* C11 amended, step part: a call that starts after another call, one
\* without the fast-fail flag, has returned an error for the same host,
\* and while the entry written then is in the cache, has its fastFail set;
\* and a call without the flag has its fastFail set only by an entry, which
\* only the return of an error writes, not a failed attempt.
C11_SeenAfterReturn ==
    \A c, d \in Calls :
        /\ (c # d /\ Done(c) /\ err[c] # NoErr /\ sets[c] = 1
                  /\ host[c] \in DOMAIN badHosts
                  /\ C11_Enters(d) /\ host'[d] = host[c])
              => fastFail'[d]
        /\ (C11_Enters(d) /\ ~ctxFastfail'[d])
              => fastFail'[d] = (host'[d] \in DOMAIN badHosts)
        /\ (host[c] \notin DOMAIN badHosts /\ host[c] \in DOMAIN badHosts')
              => \E e \in Calls :
                    ReturnStep(e) /\ err'[e] # NoErr /\ host[e] = host[c]

\* C11 amended: the failure of a host is seen by the calls that start after
\* a call has returned an error for it, not by those that start while that
\* call is still retrying.
C11_FailureSeenAfterReturn == []C11_NoWait /\ [][C11_SeenAfterReturn]_vars

\* C11 witness: one caller has returned an error that marked the host, the
\* other has then started, found the host, and returned the fast-fail error
\* of its only attempt.
C11_Witness ==
    \E c, d \in Calls :
        /\ c # d /\ host[c] = host[d]
        /\ Done(c) /\ err[c] # NoErr /\ sets[c] = 1 /\ ~fastFail[c]
        /\ Done(d) /\ fastFail[d] /\ ~ctxFastfail[d] /\ reads[d] = 1
        /\ attempts[d] = 1 /\ waits[d] = 0
        /\ err[d] = FastFailErr(Err("none", "connection refused", "none", "none"))

\* C20, state part: a call has made at most 5 attempts and begun at most 5
\* waits, whatever the other caller does.
C20_Ceiling ==
    \A c \in Calls : attempts[c] <= 5 /\ waits[c] <= attempts[c]

\* C20, progress part: a call that is in the loop or in a wait returns.
C20_Returns ==
    \A c \in Calls : (pc[c] \in {"loop", "backoff"}) ~> Done(c)

\* C20: when transmissions return and timers fire, every call returns,
\* after at most 5 attempts and 5 waits, whatever another call running at
\* the same time does.
C20_EveryCallReturns == []C20_Ceiling /\ C20_Returns

\* C20 witness: two calls running at the same time have both gone through
\* 5 attempts and 5 waits and returned the max-retries error.
C20_Witness ==
    \A c \in Calls :
        /\ Done(c) /\ err[c] = MaxRetriesErr
        /\ attempts[c] = 5 /\ waits[c] = 5 /\ ~fastFail[c]

\* C14, state part: a response that declares a length above c.bodyMax has
\* made Client.do fail with ErrBodyTooLarge: no byte of the body was
\* handed out, the underlying body was read to its end and closed, and
\* DoSigned returns that error from the iteration, at every attempt index
\* and with or without fast-fail, instead of waiting for a retry.
C14_TooLargeFails ==
    (body.st # "none" /\ body.length > bodyMax) =>
        /\ body.st = "failed" /\ body.err = ErrBodyTooLarge
        /\ body.read = 0
        /\ body.closed /\ body.avail = 0 /\ body.drained = body.size
        /\ \A ff \in BOOLEAN, idx \in 0 .. (maxRetries - 1) :
              Iteration(do(RawRsp(body.code, HdrAbsent, body.length)), ff, idx, Now)
                  = Returns(0, ErrBodyTooLarge)

\* C14, step part: nothing is read from the body of a response that was
\* dropped.
C14_NothingAfter == body.st = "failed" => body' = body

\* C14: a declared length above the limit fails the attempt with
\* ErrBodyTooLarge, with no body handed out, the underlying body drained
\* and closed, and no retry.
C14_BodyTooLarge == []C14_TooLargeFails /\ [][C14_NothingAfter]_vars

\* C14 witness: a 200 response declaring, and carrying, one byte more than
\* the limit was dropped.
C14_Witness ==
    /\ body.st = "failed" /\ body.code = 200
    /\ body.length = bodyMax + 1 /\ body.drained = bodyMax + 1

\* C15: the body of a response DoSigned returned never hands out more than
\* c.bodyMax bytes: what was read from it and what Close discarded stay
\* together within the declared length, which is no more than c.bodyMax,
\* or within c.bodyMax when the length is unknown.
C15_ReadsWithinLimit ==
    (body.st \in {"open", "closed"} /\ StatusOK(body.code)) =>
        /\ body.length <= bodyMax
        /\ body.length >= 0 => body.read + body.drained <= body.length
        /\ body.length < 0 => body.read + body.drained <= bodyMax
        /\ body.read <= bodyMax

\* C15 witness: a body of unknown length that holds two bytes more than the
\* limit was read up to the limit and closed.
C15_Witness ==
    /\ body.st = "closed" /\ body.code = 200 /\ body.length < 0
    /\ body.size = bodyMax + 2 /\ body.read = bodyMax /\ body.drained = 0

\* C18: a dialled address is permitted exactly when it is in no block
\* prefix and is in an allow prefix or not reserved; an address in a block
\* prefix is denied also when an allow prefix holds it; a denied dial gives
\* ErrReservedAddr, which DoSigned returns from the iteration, at every
\* attempt index and with or without fast-fail, instead of retrying.
C18_BlockWins ==
    dial.st = "dialled" =>
        /\ dial.err \in {NoErr, ErrReservedAddr}
        /\ (dial.err = NoErr) <=>
              /\ ~InAny(dial.block, dial.addr)
              /\ InAny(dial.allow, dial.addr) \/ ~IsReserved(dial.addr)
        /\ (InAny(dial.block, dial.addr) /\ InAny(dial.allow, dial.addr))
              => dial.err = ErrReservedAddr
        /\ dial.err # NoErr =>
              \A ff \in BOOLEAN, idx \in 0 .. (maxRetries - 1) :
                  Iteration(do(RawErr(dial.err)), ff, idx, Now)
                      = Returns(0, ErrReservedAddr)

\* C18 witness: an address that is not reserved and is in an allow prefix
\* was denied for being in a block prefix as well.
C18_Witness ==
    /\ dial.st = "dialled" /\ dial.err = ErrReservedAddr
    /\ ~IsReserved(dial.addr)
    /\ InAny(dial.allow, dial.addr) /\ InAny(dial.block, dial.addr)

\* C22, state part: a call has looked into the cache at most once: once
\* when it passed the validation without the fast-fail flag on its
\* context, else not at all; and a call whose fastFail is not set and that
\* has returned at an attempt has not returned a fast-fail error.
C22_OneLookup ==
    \A c \in Calls :
        /\ reads[c] <= 1
        /\ pc[c] # "idle" =>
              reads[c] = (IF verr[c] = NoErr /\ ~ctxFastfail[c] THEN 1 ELSE 0)
        /\ (Done(c) /\ ~fastFail[c]) => err[c].wrap # "fastfail"

\* C22, step part: the lookup is made, and fastFail is set, by the step
\* that enters DoSigned and by no later step of the call; a call whose
\* fastFail is not set and whose attempt fails in a way that is retried
\* begins its wait also when the host is in the cache by then.
C22_FixedForTheCall ==
    \A c \in Calls :
        /\ (reads'[c] # reads[c] \/ fastFail'[c] # fastFail[c])
              => pc[c] \in {"idle", "done"}
        /\ (pc[c] = "loop" /\ ~fastFail[c] /\ pc'[c] = "done")
              => err'[c].wrap # "fastfail"
        /\ (pc[c] = "backoff" /\ pc'[c] = "loop")
              => fastFail'[c] = fastFail[c] /\ reads'[c] = reads[c]

\* C22: the cache is consulted once per call, at its start; the fastFail of
\* a call stays what it was then, also when another call marks the host
\* while the call runs.
C22_ConsultedOnce == []C22_OneLookup /\ [][C22_FixedForTheCall]_vars

\* C22 witness: a call that started with the host not in the cache has just
\* begun the wait after its second attempt, which failed after the other
\* call had marked the host.
C22_Witness ==
    \E c, d \in Calls :
        /\ c # d /\ host[c] = host[d]
        /\ pc[c] = "backoff" /\ ~fastFail[c] /\ reads[c] = 1
        /\ attempts[c] = 2 /\ timer[c] = backoff[c]
        /\ Done(d) /\ sets[d] = 1
        /\ host[c] \in DOMAIN badHosts /\ badHosts[host[c]] < badHostsTTL

(* C21: the attempts of a call are strictly sequential. Attempt N+1 starts
   only from the head of the loop, after attempt N's result was classified,
   the body of its 5xx/429 response closed and its wait run out; the body of
   a response that is not returned is closed before the backoff wait, or
   the fast-fail return, begins.                                          *)

\* C21, in each state: a call at the head of the loop or in a wait holds no
\* open body and no response, and has made exactly the attempts and waits
\* its loop index tells; after a return the only open body is the one of
\* the response handed to the caller.
C21_NothingPending ==
    \A c \in Calls :
        /\ open[c] \in {0, 1}
        /\ pc[c] = "loop" =>
              open[c] = 0 /\ rsp[c] = 0 /\ attempts[c] = i[c] /\ waits[c] = i[c]
        /\ pc[c] = "backoff" =>
              /\ open[c] = 0 /\ rsp[c] = 0
              /\ attempts[c] = i[c] + 1 /\ waits[c] = attempts[c]
        /\ Done(c) => open[c] = (IF rsp[c] # 0 THEN 1 ELSE 0)
        /\ (Done(c) /\ err[c].wrap = "fastfail") => open[c] = 0

\* C21, in each step: an attempt is made one at a time from the head of the
\* loop, with no body open and, after the first, with the timer of the wait
\* before it fired; a wait or a fast-fail return begins with no body open.
C21_OneAtATime ==
    \A c \in Calls :
        /\ (attempts'[c] # attempts[c] /\ attempts'[c] # 0) =>
              /\ pc[c] = "loop" /\ attempts'[c] = attempts[c] + 1
              /\ open[c] = 0
              /\ attempts[c] > 0 => (timer[c] = 0 /\ waits[c] = attempts[c])
        /\ (pc[c] # "backoff" /\ pc'[c] = "backoff") =>
              open'[c] = 0 /\ attempts'[c] = attempts[c] + 1
        /\ (ReturnStep(c) /\ err'[c].wrap = "fastfail") => open'[c] = 0
        /\ (pc[c] = "backoff" /\ pc'[c] = "loop") => timer[c] = 0

\* C21: both of the above.
C21_Sequential == []C21_NothingPending /\ [][C21_OneAtATime]_vars

\* C21 witness: a call waits after its second attempt, which got a 5xx or
\* 429 response; the response's body is closed and the timer is running.
C21_Witness ==
    \E c \in Calls :
        /\ pc[c] = "backoff" /\ attempts[c] = 2
        /\ last[c] = NoErr /\ err[c] = StatusErr
        /\ open[c] = 0 /\ timer[c] = backoff[c] /\ timer[c] > 0

(* C24: a call that returns a response leaves the cache as it was: it does
   not mark the host, even after failed attempts of its own, and removes
   no entry. An entry leaves the cache only when its TTL has run out, so a
   host that answers again is still treated as bad until then.            *)

\* C24, in each state: a call that returned without error has written
\* nothing to the cache.
C24_SuccessWroteNothing ==
    \A c \in Calls : (Done(c) /\ err[c] = NoErr) => sets[c] = 0

\* C24, in each step: a return without error changes neither the entries
\* nor their expiry; an entry that disappears had expired, and no call moved
\* in that step; a call started on a host still in the cache is fast-fail.
C24_CacheKept ==
    /\ \A c \in Calls :
          /\ (ReturnStep(c) /\ err'[c] = NoErr) =>
                badHosts' = badHosts /\ sets'[c] = sets[c]
          /\ (pc[c] \in {"idle", "done"} /\ pc'[c] = "loop"
                 /\ host'[c] \in DOMAIN badHosts) => fastFail'[c]
    /\ \A h \in DOMAIN badHosts :
          h \notin DOMAIN badHosts' => (badHosts[h] <= 0 /\ pc' = pc)

C25_Ceiling(b) == IF b.length < 0 THEN bodyMax ELSE b.length

\* The body `b` carries more than the wrapped body hands out, without a
\* declared length above c.bodyMax.
C25_Exceeds(b) ==
    /\ b.length <= bodyMax
    /\ b.sent > C25_Ceiling(b)

\* C25: Client.do fails with ErrBodyTooLarge exactly when the declared
\* length is above c.bodyMax, whatever was sent; no Read of a wrapped body
\* returns ErrBodyTooLarge; and a body that carries more than the ceiling
\* is handed out open, yields no more than the ceiling, and its reads end
\* with io.EOF exactly at the ceiling.
C25_OnlyDeclaredLength ==
    body.st # "none" =>
        /\ (body.st = "failed") = (body.length > bodyMax)
        /\ (body.err = ErrBodyTooLarge) = (body.length > bodyMax)
        /\ (do(RawRsp(body.code, HdrAbsent, body.length)).err = NoErr)
              = (body.length <= bodyMax)
        /\ body.rerr # ErrBodyTooLarge
        /\ C25_Exceeds(body) =>
              /\ body.st \in {"open", "closed"}
              /\ body.err = NoErr
              /\ body.read + body.drained <= C25_Ceiling(body)
              /\ body.rerr \in {NoErr, EOF}
              /\ body.rerr = EOF => body.read = C25_Ceiling(body)
              /\ (body.st = "open" /\ body.read = C25_Ceiling(body)
                    /\ StatusOK(body.code)) => ENABLED BodyReadEnd \/ body.rerr = EOF

\* C25 witness: a 200 response of unknown length that sent two bytes more
\* than c.bodyMax was read to its end: io.EOF after c.bodyMax bytes.
C25_Witness ==
    /\ body.st = "open" /\ body.code = 200
    /\ body.length < 0 /\ body.sent = bodyMax + 2
    /\ body.read = bodyMax /\ body.rerr = EOF

\* C25 witness, second case: a 200 response that declared one byte and sent
\* more was read to its end: io.EOF after one byte.
C25_WitnessDeclared ==
    /\ body.st = "open" /\ body.code = 200
    /\ body.length = 1 /\ body.sent > 1
    /\ body.read = 1 /\ body.rerr = EOF

(* C23: closing the wrapped body of a response Client.do produced first
   reads and throws away every byte the limit reader still yields, and
   only then closes the underlying body: the underlying body is never
   closed while bytes within the read ceiling are unread.                 *)

\* C23, in each state: a closed underlying body was closed with nothing
\* left that the limit reader would have yielded, what was discarded is
\* all that the reader had not taken within the ceiling, and nothing is
\* discarded from a body still open.
C23_DrainedAtClose ==
    /\ body.st \in {"closed", "failed"} =>
          /\ body.closed /\ body.left = 0
          /\ BodyMin(body.limit, body.avail) = 0
          /\ body.read + body.drained = BodyMin(ReadLimit(body.length), body.size)
    /\ body.st = "open" => ~body.closed /\ body.drained = 0

\* C23, in each step: the step that closes the underlying body discards
\* just what the limit reader still yielded before it.
C23_DrainThenClose ==
    (body.st = "open" /\ body'.st = "closed") =>
        /\ body'.closed
        /\ body'.drained = BodyMin(body.limit, body.avail)
        /\ body'.read = body.read
        /\ body'.left = 0

\* C23: both of the above.
C23_DrainBeforeClose == []C23_DrainedAtClose /\ [][C23_DrainThenClose]_vars

\* C23 witness: a body of unknown length was closed after one byte was read
\* from it, with bytes left within the ceiling, which Close discarded.
C23_Witness ==
    /\ body.st = "closed" /\ body.closed
    /\ body.length < 0 /\ body.size = bodyMax + 2
    /\ body.read = 1 /\ body.drained = bodyMax - 1 /\ body.drained > 0
    /\ body.left = 0

====
